---- MODULE Spec2Model ----
(***************************************************************************)
(* A model of the BlackBeard REST client (package api): the fluent         *)
(* configuration of a Client, the call pipeline of executeCall (cache      *)
(* lookup, body encoding, URI composition, query merge, header injection,  *)
(* send, cache store), MULTIPART's transient content-type override and the *)
(* two variants of InheritFromParentContext found in the repository.       *)
(*                                                                         *)
(* Texts that the code only stores and compares (header values, tokens,    *)
(* JSON encodings) are TLA+ strings; texts that the code takes apart or    *)
(* glues together (base path, version, service, call path, URI) are        *)
(* sequences of one-character strings.                                     *)
(***************************************************************************)
EXTENDS Integers, Sequences, FiniteSets, TLC

VARIABLES
    basePath,   \* client.basePath  (sequence of characters)
    port,       \* client.port
    version,    \* client.version   (sequence of characters)
    service,    \* client.service   (sequence of characters)
    apiKey,     \* client.apiKey
    headers,    \* client.headers: canonical header name -> value
    cacheDB,    \* client.cacheDB: [open |-> BOOLEAN, data |-> key -> value]
    last,       \* what the last operation did (its inputs and its outcome)
    authT,      \* the value the last WithAuthHeader / InheritFromParentContext
                \* wrote to Authorization, while nothing else wrote it since
    panicked,   \* a nil dereference or a fatal runtime error ended the caller
    mp          \* a MULTIPART call in flight on the shared client: its position,
                \* the header set it cloned, and what other callers did to the
                \* client between its override and its restore

vars == <<basePath, port, version, service, apiKey, headers, cacheDB, last,
          authT, panicked, mp>>

-----------------------------------------------------------------------------
(* Bounds of the model.                                                    *)

\* The number of distinct fingerprints the callers use while the cache is on:
\* the cache itself has no size bound.
MaxEntries == 2

-----------------------------------------------------------------------------
(* Program constants.                                                      *)

uriSeparator == "/"
portSeparator == ":"
keyQuery == "key"
authorizationHeader == "Authorization"
traceIDHeader == "X-trace-id"
contentTypeHeader == "Content-type"
jsonContent == "application/json"

\* http.MethodGet, http.MethodPost, http.MethodPut, http.MethodDelete
MethodGet == <<"G", "E", "T">>
MethodPost == <<"P", "O", "S", "T">>
MethodPut == <<"P", "U", "T">>
MethodDelete == <<"D", "E", "L", "E", "T", "E">>

-----------------------------------------------------------------------------
(* Texts as sequences of characters.                                       *)

\* strings.TrimRight(s, cut): s without its trailing cut characters
RECURSIVE TrimRight(_, _)
TrimRight(s, cut) ==
    IF s # <<>> /\ s[Len(s)] = cut THEN TrimRight(SubSeq(s, 1, Len(s) - 1), cut)
    ELSE s

\* strings.TrimLeft(s, cut): s without its leading cut characters
RECURSIVE TrimLeft(_, _)
TrimLeft(s, cut) ==
    IF s # <<>> /\ s[1] = cut THEN TrimLeft(Tail(s), cut)
    ELSE s

Digit(d) == <<"0", "1", "2", "3", "4", "5", "6", "7", "8", "9">>[d + 1]

\* fmt.Sprintf("%v", n) of a non-negative int
RECURSIVE Itoa(_)
Itoa(n) == IF n < 10 THEN <<Digit(n)>> ELSE Itoa(n \div 10) \o <<Digit(n % 10)>>

shouldAddPort(p) == p # 0
shouldAddVersion(v) == v # <<>>
shouldAddService(s) == s # <<>>
shouldAddAPIKey(k) == k # ""

\* a composition that puts the service before the version
getURIServiceFirst(bp, p, v, s) ==
    LET u0 == bp
        u1 == IF shouldAddPort(p) THEN u0 \o <<portSeparator>> \o Itoa(p) ELSE u0
        u2 == u1 \o <<uriSeparator>>
        u3 == IF shouldAddService(s) THEN u2 \o s \o <<uriSeparator>> ELSE u2
        u4 == IF shouldAddVersion(v) THEN u3 \o v \o <<uriSeparator>> ELSE u3
    IN  u4

\* client.getURI()
getURI(bp, p, v, s) ==
    LET u0 == bp
        u1 == IF shouldAddPort(p) THEN u0 \o <<portSeparator>> \o Itoa(p) ELSE u0
        u2 == u1 \o <<uriSeparator>>
        u3 == IF shouldAddVersion(v) THEN u2 \o v \o <<uriSeparator>> ELSE u2
        u4 == IF shouldAddService(s) THEN u3 \o s \o <<uriSeparator>> ELSE u3
    IN  u4

\* the text executeCall hands to url.Parse
endpointText(bp, p, v, s, path) == getURI(bp, p, v, s) \o TrimLeft(path, uriSeparator)

HttpScheme == <<"h", "t", "t", "p", ":", "/", "/">>

\* url.Parse rejects a text that starts with a colon ("missing protocol scheme")
urlParseFails(u) == u # <<>> /\ u[1] = ":"

\* the transport refuses a URL without a scheme ("unsupported protocol scheme")
hasScheme(u) == Len(u) >= Len(HttpScheme) /\ SubSeq(u, 1, Len(HttpScheme)) = HttpScheme

-----------------------------------------------------------------------------
(* Header sets.  http.Header maps the canonical form of a header name to   *)
(* the list of its values; Set and Get work on the canonical form.         *)

EmptyMap == [n \in {} |-> ""]

\* textproto.CanonicalMIMEHeaderKey on the header names of the model
Canon(name) ==
    CASE name = "Authorization" -> "Authorization"
      [] name = "authorization" -> "Authorization"
      [] name = "Content-type"  -> "Content-Type"
      [] name = "Content-Type"  -> "Content-Type"
      [] name = "X-trace-id"    -> "X-Trace-Id"
      [] name = "X-Trace-Id"    -> "X-Trace-Id"
      [] OTHER                  -> name

\* a write that keeps the values the name already has (http.Header.Add)
HeaderSetAppend(h, name, value) ==
    [n \in DOMAIN h \cup {Canon(name)} |->
        IF n = Canon(name)
        THEN (IF n \in DOMAIN h THEN Append(h[n], value) ELSE <<value>>)
        ELSE h[n]]

\* http.Header.Set: the name holds the one value
HeaderSet(h, name, value) ==
    [n \in DOMAIN h \cup {Canon(name)} |-> IF n = Canon(name) THEN <<value>> ELSE h[n]]

\* http.Header.Get on a client header set: the first value of the name
HeaderGet(h, name) == IF Canon(name) \in DOMAIN h THEN Head(h[Canon(name)]) ELSE ""

\* gin.Context.GetHeader: the first value of the inbound request's header
GetHeader(ctx, name) ==
    IF Canon(name) \in DOMAIN ctx.header THEN Head(ctx.header[Canon(name)]) ELSE ""

\* a request that is sent without the client's headers
injectHeadersNone(h) == EmptyMap

\* client.injectHeaders: the request carries the client's header set
injectHeaders(h) == h

-----------------------------------------------------------------------------
(* Payloads, queries and responses.                                        *)
(*                                                                         *)
(* A payload (interface{}) is described by what the code asks of it: is it *)
(* nil, is it an io.Reader (and what bytes it yields), can json.Marshal    *)
(* encode it (and to what text).                                           *)

NilBody == [nil |-> TRUE, reader |-> FALSE, marshalable |-> TRUE,
            json |-> <<"n", "u", "l", "l">>, content |-> <<>>]
\* the int 1
JsonBody == [nil |-> FALSE, reader |-> FALSE, marshalable |-> TRUE,
             json |-> <<"1">>, content |-> <<>>]
\* a *bytes.Buffer: a struct without exported fields, which marshals to {}
ReaderBody == [nil |-> FALSE, reader |-> TRUE, marshalable |-> TRUE,
               json |-> <<"{", "}">>, content |-> <<"r">>]
\* a channel: json.Marshal fails
BadBody == [nil |-> FALSE, reader |-> FALSE, marshalable |-> FALSE,
            json |-> <<>>, content |-> <<>>]
\* an io.Reader whose type has an exported func field: json.Marshal fails
BadReaderBody == [nil |-> FALSE, reader |-> TRUE, marshalable |-> FALSE,
                  json |-> <<>>, content |-> <<"s">>]

Bodies == {NilBody, JsonBody, ReaderBody, BadBody, BadReaderBody}

\* a query (map[string][]string) with the text json.Marshal gives it
NilQuery == [nil |-> TRUE, json |-> <<"n", "u", "l", "l">>, vals |-> EmptyMap]
OneQuery == [nil |-> FALSE, json |-> <<"{", "\"", "a", "\"", ":", "[", "\"", "1", "\"", "]", "}">>,
             vals |-> [k \in {"a"} |-> <<"1">>]]

Queries == {NilQuery, OneQuery}

Paths == {<<"/", "x">>}

\* what the remote service may answer
Responses == {[status |-> 200, body |-> "b1"], [status |-> 404, body |-> "e1"]}

\* a nil *http.Response
NilResponse == [status |-> -1, body |-> "<nil>"]
\* new(http.Response): status 0, no body
ZeroResponse == [status |-> 0, body |-> ""]

NoRequest == [header |-> EmptyMap, body |-> [has |-> FALSE, bytes |-> <<>>],
              method |-> <<>>, url |-> <<>>, query |-> <<>>]

-----------------------------------------------------------------------------
(* The response cache.                                                     *)

ClosedDB == [open |-> FALSE, data |-> EmptyMap]
\* badger.Open(DefaultOptions("").WithInMemory(true)): an empty store
OpenDB == [open |-> TRUE, data |-> EmptyMap]

\* json.Marshal of a Go string without characters that need escaping
marshalString(s) == <<"\"">> \o s \o <<"\"">>

\* json.Marshal(value), its error dropped: no bytes when it fails
marshalBody(body) == IF body.marshalable THEN body.json ELSE <<>>

marshalQuery(query) == query.json

\* appendBytes, given the bytes json.Marshal produced for the value
appendBytes(key, bytes) == key \o bytes

getCacheKey(method, path, body, query) ==
    LET k1 == appendBytes(<<>>, marshalString(method))
        k2 == appendBytes(k1, marshalString(path))
        k3 == appendBytes(k2, marshalBody(body))
        k4 == appendBytes(k3, marshalQuery(query))
    IN  k4

\* json.Marshal(response) in cache(), its error dropped.  The response of
\* http.Client.Do carries its request, and http.Request has func and channel
\* fields (GetBody, Cancel) that json.Marshal refuses: no bytes come out.
marshalResponse(response) == <<>>

\* json.Unmarshal(val, &response) into new(http.Response): no bytes is an
\* error ("unexpected end of JSON input") that leaves the zero response
unmarshalResponse(val) ==
    IF val.bytes = <<>> THEN [response |-> ZeroResponse, err |-> TRUE]
    ELSE [response |-> val.of, err |-> FALSE]

\* the transaction of getResponseFromCache under cacheDB.View: a key that is
\* not found is no error (and the nil it assigns stays in the closure)
getResponseFromCache(db, key) ==
    IF key \notin DOMAIN db.data
    THEN [response |-> ZeroResponse, err |-> FALSE]
    ELSE unmarshalResponse(db.data[key])

\* callCached: the response and the isCached flag, which is err != nil
callCached(db, method, path, body, query) ==
    IF ~db.open THEN [response |-> NilResponse, isCached |-> FALSE]
    ELSE LET r == getResponseFromCache(db, getCacheKey(method, path, body, query))
         IN  [response |-> r.response, isCached |-> r.err]

\* txn.Set(key, value)
dbSet(db, key, value) ==
    [db EXCEPT !.data = [k \in DOMAIN db.data \cup {key} |->
                            IF k = key THEN value ELSE db.data[k]]]

\* what is stored under a fingerprint: the bytes, and for the record the
\* response they were made from and the call that stored them
cacheEntry(method, path, body, query, response) ==
    [bytes |-> marshalResponse(response), of |-> response,
     by |-> [path |-> path, body |-> body, method |-> method, query |-> query]]

\* a store that does not look whether the cache was enabled
cacheNoGuard(db, method, path, body, query, response) ==
    dbSet(db, getCacheKey(method, path, body, query),
          cacheEntry(method, path, body, query, response))

\* cache: the bytes stored under the fingerprint
cache(db, method, path, body, query, response) ==
    IF ~db.open THEN db
    ELSE dbSet(db, getCacheKey(method, path, body, query),
               cacheEntry(method, path, body, query, response))

-----------------------------------------------------------------------------
(* The call pipeline.                                                      *)

\* interface2Reader: the body of the request, or an encoding error
interface2Reader(data) ==
    IF data.nil THEN [body |-> [has |-> FALSE, bytes |-> <<>>], err |-> FALSE]
    ELSE IF data.reader THEN [body |-> [has |-> TRUE, bytes |-> data.content], err |-> FALSE]
    ELSE IF data.marshalable THEN [body |-> [has |-> TRUE, bytes |-> data.json], err |-> FALSE]
    ELSE [body |-> [has |-> FALSE, bytes |-> <<>>], err |-> TRUE]

\* url.Values.Add
valuesAdd(vals, k, v) ==
    [n \in DOMAIN vals \cup {k} |->
        IF n = k THEN (IF k \in DOMAIN vals THEN Append(vals[k], v) ELSE <<v>>)
        ELSE vals[n]]

\* the loop of addQuery over one key's values
RECURSIVE addValues(_, _, _)
addValues(vals, k, values) ==
    IF values = <<>> THEN vals
    ELSE addValues(valuesAdd(vals, k, Head(values)), k, Tail(values))

\* the loop of addQuery over the keys of the query
RECURSIVE addKeys(_, _, _)
addKeys(vals, query, keys) ==
    IF keys = {} THEN vals
    ELSE LET k == CHOOSE x \in keys : TRUE
         IN  addKeys(addValues(vals, k, query[k]), query, keys \ {k})

\* addQuery: the url.Values the endpoint ends with (it starts without any)
addQuery(query, key) ==
    IF query.nil THEN EmptyMap
    ELSE LET merged == addKeys(EmptyMap, query.vals, DOMAIN query.vals)
         IN  IF shouldAddAPIKey(key) THEN valuesAdd(merged, keyQuery, key) ELSE merged

\* the query keys of the model in the order url.Values.Encode sorts them
SortedKeys == <<"a", "key">>

RECURSIVE pairsOf(_, _)
pairsOf(k, values) ==
    IF values = <<>> THEN <<>> ELSE <<<<k, Head(values)>>>> \o pairsOf(k, Tail(values))

\* url.Values.Encode: the key=value pairs, sorted by key
RECURSIVE encodeFrom(_, _)
encodeFrom(vals, i) ==
    IF i > Len(SortedKeys) THEN <<>>
    ELSE (IF SortedKeys[i] \in DOMAIN vals THEN pairsOf(SortedKeys[i], vals[SortedKeys[i]])
          ELSE <<>>) \o encodeFrom(vals, i + 1)

Encode(vals) == encodeFrom(vals, 1)

\* client.do: the transport answers or fails; it cannot reach a URL
\* without a scheme
do(request) ==
    {[response |-> NilResponse, err |-> TRUE]} \cup
    (IF hasScheme(request.url)
     THEN {[response |-> r, err |-> FALSE] : r \in Responses}
     ELSE {})

\* a send that offers the cache whatever came back, error or not
afterDoStoreAlways(client, method, path, body, query, request, d) ==
    {[response |-> IF d.err THEN NilResponse ELSE d.response,
      err |-> IF d.err THEN "transport" ELSE "nil",
      db |-> cache(client.cacheDB, method, path, body, query, d.response),
      request |-> request, cached |-> FALSE, sent |-> 1,
      steps |-> <<"lookup", "encode", "uri", "query", "headers", "send", "store">>]}

\* a send that offers the cache only the responses below 400
afterDoStoreBelow400(client, method, path, body, query, request, d) ==
    IF d.err
    THEN {[response |-> NilResponse, err |-> "transport", db |-> client.cacheDB,
           request |-> request, cached |-> FALSE, sent |-> 1,
           steps |-> <<"lookup", "encode", "uri", "query", "headers", "send">>]}
    ELSE {[response |-> d.response, err |-> "nil",
           db |-> IF d.response.status < 400
                  THEN cache(client.cacheDB, method, path, body, query, d.response)
                  ELSE client.cacheDB,
           request |-> request, cached |-> FALSE, sent |-> 1,
           steps |-> <<"lookup", "encode", "uri", "query", "headers", "send", "store">>]}

\* executeCall from the send on (lines 219-225): a transport error ends the
\* call, a response is offered to the cache and returned
afterDo(client, method, path, body, query, request, d) ==
    IF d.err
    THEN {[response |-> NilResponse, err |-> "transport", db |-> client.cacheDB,
           request |-> request, cached |-> FALSE, sent |-> 1,
           steps |-> <<"lookup", "encode", "uri", "query", "headers", "send">>]}
    ELSE {[response |-> d.response, err |-> "nil",
           db |-> cache(client.cacheDB, method, path, body, query, d.response),
           request |-> request, cached |-> FALSE, sent |-> 1,
           steps |-> <<"lookup", "encode", "uri", "query", "headers", "send", "store">>]}

\* executeCall from the body encoding on (lines 202-225), after a cache miss
afterMiss(client, method, path, body, query) ==
    LET rd   == interface2Reader(body)
        text == endpointText(client.basePath, client.port, client.version,
                             client.service, path)
        request == [header |-> injectHeaders(client.headers), body |-> rd.body,
                    method |-> method, url |-> text,
                    query |-> Encode(addQuery(query, client.apiKey))]
    IN  IF rd.err
        THEN {[response |-> NilResponse, err |-> "encoding", db |-> client.cacheDB,
               request |-> NoRequest, cached |-> FALSE, sent |-> 0,
               steps |-> <<"lookup", "encode">>]}
        ELSE IF urlParseFails(text)
        THEN {[response |-> NilResponse, err |-> "construction", db |-> client.cacheDB,
               request |-> NoRequest, cached |-> FALSE, sent |-> 0,
               steps |-> <<"lookup", "encode", "uri">>]}
        ELSE UNION {afterDo(client, method, path, body, query, request, d) :
                        d \in do(request)}

\* a call that goes on to the network although the lookup reported a hit
executeCallPastHit(client, method, path, body, query) ==
    afterMiss(client, method, path, body, query)

\* executeCall: the outcomes of one call on the client
executeCall(client, method, path, body, query) ==
    LET c == callCached(client.cacheDB, method, path, body, query)
    IN  IF c.isCached
        THEN {[response |-> c.response, err |-> "nil", db |-> client.cacheDB,
               request |-> NoRequest, cached |-> TRUE, sent |-> 0,
               steps |-> <<"lookup">>]}
        ELSE afterMiss(client, method, path, body, query)

-----------------------------------------------------------------------------
(* Multipart bodies.                                                       *)

\* the content type multipart.Writer.FormDataContentType gives, with its
\* boundary
FormDataContentType == "multipart/form-data; boundary=B"

\* a file of MultipartBody.Files: can os.Open open it, does io.Copy reach
\* its end
GoodFile == [open |-> TRUE, copy |-> TRUE]
MissingFile == [open |-> FALSE, copy |-> FALSE]
BrokenFile == [open |-> TRUE, copy |-> FALSE]

\* the files in the order the range loop visits them, and the params
MultipartBodies ==
    {[files |-> <<GoodFile>>, params |-> <<"p">>],
     [files |-> <<MissingFile>>, params |-> <<"p">>],
     [files |-> <<BrokenFile>>, params |-> <<>>]}

\* the loop of getMultipartBody over Files (lines 158-172): a file that
\* cannot be opened returns at once; the error of io.Copy is kept in err
\* and the loop goes on.  A whole file part is "F", a cut one is "f".
RECURSIVE writeFiles(_, _)
writeFiles(files, st) ==
    IF files = <<>> THEN st
    ELSE IF ~Head(files).open THEN [st EXCEPT !.err = TRUE, !.returned = TRUE]
    ELSE writeFiles(Tail(files),
                    [st EXCEPT !.buf = Append(st.buf, IF Head(files).copy THEN "F" ELSE "f"),
                               !.err = ~Head(files).copy])

\* getMultipartBody: err is assigned again by writer.Close(), which cannot
\* fail on a bytes.Buffer
getMultipartBody(data) ==
    LET w == writeFiles(data.files, [err |-> FALSE, returned |-> FALSE, buf |-> <<>>])
    IN  IF w.returned
        THEN [body |-> NilBody, err |-> TRUE, contentType |-> ""]
        ELSE [body |-> [nil |-> FALSE, reader |-> TRUE, marshalable |-> TRUE,
                        json |-> <<"{", "}">>, content |-> w.buf \o data.params],
              err |-> FALSE, contentType |-> FormDataContentType]

\* a MULTIPART that does not touch the client's header set
multipartOverrideNone(h, contentType) == h

\* MULTIPART line 148: the content type set on the client's header set
multipartOverride(h, contentType) == HeaderSet(h, contentTypeHeader, contentType)

\* a MULTIPART that leaves its override in place
multipartRestoreKeep(snapshot, current) == current

\* MULTIPART line 150: the header set the client is left with
multipartRestore(snapshot, current) == snapshot

-----------------------------------------------------------------------------
(* The response parsers (ParseAllPaginated, ParseOnePaginated).            *)
(*                                                                         *)
(* The body of a response is described by what the parsers ask of it: is   *)
(* there a Body to read, does the read reach its end, is the text JSON,    *)
(* which kind of JSON value, and what its members give to the fields of    *)
(* PaginatedResponse (total, data) and of ErrorResponse (name, code).      *)

StatusOK == 200
StatusBadRequest == 400

\* the members of a JSON object that fit no field: the zero struct
NoPage == [data |-> <<>>, fits |-> TRUE, total |-> 0]
NoError == [name |-> "", fits |-> TRUE, code |-> 0]

jsonBody(text, kind, page, error) ==
    [json |-> TRUE, has |-> TRUE, text |-> text, kind |-> kind, page |-> page,
     error |-> error, readable |-> TRUE]

\* {"total":2,"data":[r1,r2]}
PageOfTwo == jsonBody("p2", "object",
                      [data |-> <<"r1", "r2">>, fits |-> TRUE, total |-> 2], NoError)
\* {"total":1,"data":[r1]}
PageOfOne == jsonBody("p1", "object", [data |-> <<"r1">>, fits |-> TRUE, total |-> 1], NoError)
\* {"total":0,"data":[]}
PageOfNone == jsonBody("p0", "object", NoPage, NoError)
\* {"limit":10}: no data member
PageNoData == jsonBody("pn", "object", NoPage, NoError)
\* {"data":5}: data is no array
PageBadData == jsonBody("pb", "object", [data |-> <<>>, fits |-> FALSE, total |-> 0], NoError)
\* {"name":"NotFound","code":404}
ErrorObject == jsonBody("eo", "object", NoPage, [name |-> "NotFound", fits |-> TRUE, code |-> 404])
\* {"code":"x"}: code is no number
ErrorBadCode == jsonBody("eb", "object", NoPage, [name |-> "", fits |-> FALSE, code |-> 0])
\* [r1]: an array where an object is expected
ArrayBody == jsonBody("ar", "array", [data |-> <<>>, fits |-> FALSE, total |-> 0],
                      [name |-> "", fits |-> FALSE, code |-> 0])
\* null
NullBody == jsonBody("null", "null", NoPage, NoError)
\* <html>: no JSON
TextBody == [json |-> FALSE, has |-> TRUE, text |-> "html", kind |-> "none", page |-> NoPage,
             error |-> NoError, readable |-> TRUE]
\* a body whose read fails before its end
BrokenBody == [json |-> FALSE, has |-> TRUE, text |-> "cut", kind |-> "none", page |-> NoPage,
               error |-> NoError, readable |-> FALSE]
\* no Body at all (a nil io.ReadCloser)
AbsentBody == [json |-> FALSE, has |-> FALSE, text |-> "nil", kind |-> "none", page |-> NoPage,
               error |-> NoError, readable |-> FALSE]

ParseBodies == {PageOfTwo, PageOfOne, PageOfNone, PageNoData, PageBadData,
                ErrorObject, ErrorBadCode, ArrayBody, NullBody, TextBody, BrokenBody}

ParseStatuses == {199, 200, 399, 400, 500}

\* the response callCached hands out on a hit: new(http.Response), status 0
\* and a nil Body
ZeroParseResponse == [status |-> ZeroResponse.status, body |-> AbsentBody]

\* the responses handed to the parsers: those of the transport, whose Body
\* is never nil, and the one a cache hit returns
ParseResponses ==
    {[status |-> st, body |-> b] : st \in ParseStatuses, b \in ParseBodies}
    \cup {ZeroParseResponse}

\* receivers: a pointer to an interface{}, a pointer to an int, a value
\* that is no pointer; val is what the receiver holds
PtrAny == [val |-> <<"untouched">>, isPtr |-> TRUE, any |-> TRUE]
PtrInt == [val |-> <<"untouched">>, isPtr |-> TRUE, any |-> FALSE]
NotPtr == [val |-> <<"untouched">>, isPtr |-> FALSE, any |-> FALSE]
Receivers == {PtrAny, PtrInt, NotPtr}

isValidResponse(response) ==
    response.status >= StatusOK /\ response.status < StatusBadRequest

isAPointer(receiver) == receiver.isPtr

\* Body2Interface: ioutil.ReadAll(resp.Body), then json.Unmarshal into an
\* interface{}.  Reading a nil Body is a nil dereference.
Body2Interface(resp) ==
    IF ~resp.body.has THEN [data |-> resp.body, err |-> "nil", panic |-> TRUE]
    ELSE IF ~resp.body.readable THEN [data |-> resp.body, err |-> "read", panic |-> FALSE]
    ELSE IF ~resp.body.json THEN [data |-> resp.body, err |-> "syntax", panic |-> FALSE]
    ELSE [data |-> resp.body, err |-> "nil", panic |-> FALSE]

\* ParseTo(body, paginatedData): the JSON value marshalled again and
\* unmarshalled into a PaginatedResponse.  null leaves the zero struct.
ParseToPaginated(data) ==
    IF data.kind = "null" THEN [err |-> "nil", page |-> NoPage]
    ELSE IF data.kind = "object" /\ data.page.fits THEN [err |-> "nil", page |-> data.page]
    ELSE [err |-> "unmarshal", page |-> NoPage]

\* ParseTo(body, errorResponse), into an ErrorResponse
ParseToError(data) ==
    IF data.kind = "null" THEN [err |-> "nil", error |-> NoError]
    ELSE IF data.kind = "object" /\ data.error.fits THEN [err |-> "nil", error |-> data.error]
    ELSE [err |-> "unmarshal", error |-> NoError]

\* ParseTo(data, receiver) for a value the parsers decoded, given as the
\* text val: the receiver must be a pointer, and its type must take the value
ParseTo(val, receiver) ==
    IF ~isAPointer(receiver) THEN [err |-> "notAPointer", receiver |-> receiver]
    ELSE IF ~receiver.any THEN [err |-> "unmarshal", receiver |-> receiver]
    ELSE [err |-> "nil", receiver |-> [receiver EXCEPT !.val = val]]

\* the fallback of parseError
fallbackError(resp) == [name |-> "No standar error found", code |-> resp.status]

\* parseError: an *ErrorResponse in every case that returns
parseError(resp) ==
    LET b == Body2Interface(resp)
        e == ParseToError(b.data)
    IN  IF b.panic THEN [err |-> "nil", error |-> NoError, panic |-> TRUE]
        ELSE IF b.err # "nil"
        THEN [err |-> "ErrorResponse", error |-> fallbackError(resp), panic |-> FALSE]
        ELSE IF e.err # "nil"
        THEN [err |-> "ErrorResponse", error |-> fallbackError(resp), panic |-> FALSE]
        ELSE [err |-> "ErrorResponse", error |-> [name |-> e.error.name, code |-> e.error.code],
              panic |-> FALSE]

\* getPaginatedData: the structured error for a status outside 200..399,
\* else the body decoded into a PaginatedResponse
getPaginatedData(resp) ==
    LET pe == parseError(resp)
        b  == Body2Interface(resp)
        pg == ParseToPaginated(b.data)
    IN  IF ~isValidResponse(resp)
        THEN [err |-> pe.err, page |-> NoPage, error |-> pe.error, panic |-> pe.panic]
        ELSE IF b.panic
        THEN [err |-> "nil", page |-> NoPage, error |-> NoError, panic |-> TRUE]
        ELSE IF b.err # "nil"
        THEN [err |-> b.err, page |-> NoPage, error |-> NoError, panic |-> FALSE]
        ELSE [err |-> pg.err, page |-> pg.page, error |-> NoError, panic |-> FALSE]

\* what a parser returns: did it panic, its error, the ErrorResponse when
\* the error is one, and the receiver as it is left
parseResult(panic, err, error, receiver) ==
    [err |-> err, error |-> error, receiver |-> receiver, panic |-> panic]

\* ParseAllPaginated: the whole PaginatedResponse goes to the receiver
ParseAllPaginatedResult(resp, receiver) ==
    LET g == getPaginatedData(resp)
        t == ParseTo(<<"page">> \o g.page.data, receiver)
    IN  IF g.panic THEN parseResult(TRUE, "nil", NoError, receiver)
        ELSE IF g.err # "nil" THEN parseResult(FALSE, g.err, g.error, receiver)
        ELSE parseResult(FALSE, t.err, NoError, t.receiver)

\* ParseOnePaginated: paginatedData.Data[0] goes to the receiver; indexing
\* an empty Data is an index-out-of-range panic
ParseOnePaginatedResult(resp, receiver) ==
    LET g == getPaginatedData(resp)
        t == ParseTo(<<"record", g.page.data[1]>>, receiver)
    IN  IF g.panic THEN parseResult(TRUE, "nil", NoError, receiver)
        ELSE IF g.err # "nil" THEN parseResult(FALSE, g.err, g.error, receiver)
        ELSE IF g.page.data = <<>> THEN parseResult(TRUE, "nil", NoError, receiver)
        ELSE parseResult(FALSE, t.err, NoError, t.receiver)

NoParse == [resp |-> ZeroParseResponse, before |-> NotPtr,
            out |-> parseResult(FALSE, "nil", NoError, NotPtr)]

-----------------------------------------------------------------------------
(* The state of the client and the record of the last operation.           *)

Client == [basePath |-> basePath, port |-> port, version |-> version,
           service |-> service, apiKey |-> apiKey, headers |-> headers,
           cacheDB |-> cacheDB]

NoCtx == [header |-> EmptyMap, isNil |-> TRUE, nilRequest |-> TRUE]

\* the inbound contexts handed to InheritFromParentContext
Contexts ==
    {NoCtx,
     [header |-> EmptyMap, isNil |-> FALSE, nilRequest |-> TRUE],
     [header |-> EmptyMap, isNil |-> FALSE, nilRequest |-> FALSE],
     [header |-> [n \in {"Authorization", "X-Upstream"} |->
                     IF n = "Authorization" THEN <<"Bearer U">> ELSE <<"u">>],
      isNil |-> FALSE, nilRequest |-> FALSE],
     [header |-> [n \in {"X-Upstream"} |-> <<"u">>],
      isNil |-> FALSE, nilRequest |-> FALSE]}

NoPrev == [response |-> NilResponse, err |-> "nil", cached |-> FALSE, sent |-> 0,
           same |-> FALSE]

NoLast == [path |-> <<>>, ctx |-> NoCtx, body |-> NilBody, method |-> <<>>,
           query |-> NilQuery, response |-> NilResponse, err |-> "nil",
           request |-> NoRequest, cached |-> FALSE, sent |-> 0, steps |-> <<>>,
           op |-> "none", called |-> FALSE, hdrBefore |-> EmptyMap,
           dbBefore |-> ClosedDB, prev |-> NoPrev, parse |-> NoParse]

\* no MULTIPART call is in flight
NoMultipart == [path |-> <<>>, body |-> NilBody, query |-> NilQuery, snapshot |-> EmptyMap,
                pc |-> "idle", record |-> NoLast, written |-> {},
                windowSent |-> {}]

NoAuth == [val |-> "", set |-> FALSE]

\* the record of a call that went through executeCall with outcome o
callRecord(op, method, path, body, query, o) ==
    [path |-> path, ctx |-> NoCtx, body |-> body, method |-> method, query |-> query,
     response |-> o.response, err |-> o.err, request |-> o.request, cached |-> o.cached,
     sent |-> o.sent, steps |-> o.steps, op |-> op,
     called |-> TRUE, hdrBefore |-> headers, dbBefore |-> cacheDB,
     prev |-> IF last.called /\ last.method = method /\ last.path = path
                 /\ last.body = body /\ last.query = query
              THEN [response |-> last.response, err |-> last.err, cached |-> last.cached,
                    sent |-> last.sent, same |-> TRUE]
              ELSE NoPrev,
     parse |-> NoParse]

\* a MULTIPART call is between its override (line 148) and its restore
\* (line 150)
inWindow == mp.pc \in {"overridden", "sent"}

\* the callers use at most MaxEntries fingerprints while the cache is on
canCall(method, path, body, query) ==
    \/ ~cacheDB.open
    \/ getCacheKey(method, path, body, query) \in DOMAIN cacheDB.data
    \/ Cardinality(DOMAIN cacheDB.data) < MaxEntries

Init ==
    /\ basePath = <<>>
    /\ port = 0
    /\ version = <<>>
    /\ service = <<>>
    /\ apiKey = ""
    /\ headers = EmptyMap
    /\ cacheDB = ClosedDB
    /\ last = NoLast
    /\ authT = NoAuth
    /\ panicked = FALSE
    /\ mp = NoMultipart

-----------------------------------------------------------------------------
(* Configuration.                                                          *)

WithCache ==
    /\ ~panicked
    /\ cacheDB' = OpenDB
    /\ last' = NoLast
    /\ UNCHANGED <<basePath, port, version, service, apiKey, headers, authT, panicked, mp>>

WithBasePath(path) ==
    /\ ~panicked
    /\ basePath' = TrimRight(path, uriSeparator)
    /\ last' = NoLast
    /\ UNCHANGED <<port, version, service, apiKey, headers, cacheDB, authT, panicked, mp>>

WithPort(p) ==
    /\ ~panicked
    /\ port' = p
    /\ last' = NoLast
    /\ UNCHANGED <<basePath, version, service, apiKey, headers, cacheDB, authT, panicked, mp>>

ToService(s) ==
    /\ ~panicked
    /\ service' = s
    /\ last' = NoLast
    /\ UNCHANGED <<basePath, port, version, apiKey, headers, cacheDB, authT, panicked, mp>>

WithVersion(v) ==
    /\ ~panicked
    /\ version' = v
    /\ last' = NoLast
    /\ UNCHANGED <<basePath, port, service, apiKey, headers, cacheDB, authT, panicked, mp>>

WithAPIKey(key) ==
    /\ ~panicked
    /\ apiKey' = key
    /\ last' = NoLast
    /\ UNCHANGED <<basePath, port, version, service, headers, cacheDB, authT, panicked, mp>>

-----------------------------------------------------------------------------
(* Headers.                                                                *)

\* a write of value under name by an operation other than WithAuthHeader and
\* InheritFromParentContext ends what authT records when it hits Authorization
otherWrite(name) == IF Canon(name) = Canon(authorizationHeader) THEN NoAuth ELSE authT

\* client.headers.Set.  While a MULTIPART call of another caller is between
\* its override and its restore, the map that is written is the one its
\* request reads: the write lands, or the runtime ends the process
\* ("concurrent map read and map write").
setHeaderOp(name, value, auth) ==
    /\ ~panicked
    /\ headers' = HeaderSet(headers, name, value)
    /\ authT' = auth
    /\ last' = NoLast
    /\ mp' = IF inWindow THEN [mp EXCEPT !.written = @ \cup {Canon(name)}] ELSE mp
    /\ panicked' \in (IF inWindow THEN BOOLEAN ELSE {FALSE})
    /\ UNCHANGED <<basePath, port, version, service, apiKey, cacheDB>>

WithTraceID(id) == setHeaderOp(traceIDHeader, id, authT)

WithContentType(content) == setHeaderOp(contentTypeHeader, content, authT)

WithJSONContent == setHeaderOp(contentTypeHeader, jsonContent, authT)

WithAuthHeader(token) ==
    setHeaderOp(authorizationHeader, token, [val |-> token, set |-> TRUE])

SetHeader(header, value) == setHeaderOp(header, value, otherWrite(header))

AddHeader(header, value) == setHeaderOp(header, value, otherWrite(header))

\* the loop of InheritFromParentContext in src/headers.go over the inbound
\* header names
RECURSIVE copyHeaders(_, _, _)
copyHeaders(h, ctx, names) ==
    IF names = {} THEN h
    ELSE LET n == CHOOSE x \in names : TRUE
         IN  copyHeaders(HeaderSet(h, n, GetHeader(ctx, n)), ctx, names \ {n})

\* what authT records after an inheritance that wrote Authorization or not
inheritedAuth(ctx, wrote) ==
    IF Canon(authorizationHeader) \in DOMAIN ctx.header
    THEN [val |-> GetHeader(ctx, authorizationHeader), set |-> TRUE]
    ELSE IF wrote THEN NoAuth ELSE authT

inheritRecord(op, ctx) == [NoLast EXCEPT !.op = op, !.ctx = ctx, !.hdrBefore = headers]

\* InheritFromParentContext of src/headers.go: ctx.Request.Header is read
\* without a nil check, and every inbound header is copied
InheritFromParentContext(ctx) ==
    /\ ~panicked
    /\ last' = inheritRecord("InheritFromParentContext", ctx)
    /\ IF ctx.isNil \/ ctx.nilRequest
       THEN /\ panicked' = TRUE
            /\ UNCHANGED <<headers, authT>>
       ELSE IF DOMAIN ctx.header = {}
       THEN UNCHANGED <<headers, authT, panicked>>
       ELSE /\ headers' = copyHeaders(headers, ctx, DOMAIN ctx.header)
            /\ authT' = inheritedAuth(ctx, FALSE)
            /\ UNCHANGED panicked
    /\ UNCHANGED <<basePath, port, version, service, apiKey, cacheDB, mp>>

\* InheritFromParentContext of src/unnamed/part_001: nil checks, and only
\* the Authorization header is copied
InheritFromParentContextAlt(ctx) ==
    /\ ~panicked
    /\ last' = inheritRecord("InheritFromParentContextAlt", ctx)
    /\ IF ctx.isNil \/ ctx.nilRequest
       THEN UNCHANGED <<headers, authT>>
       ELSE IF DOMAIN ctx.header = {}
       THEN UNCHANGED <<headers, authT>>
       ELSE /\ headers' = HeaderSet(headers, authorizationHeader,
                                    GetHeader(ctx, authorizationHeader))
            /\ authT' = inheritedAuth(ctx, TRUE)
    /\ UNCHANGED <<basePath, port, version, service, apiKey, cacheDB, panicked, mp>>

-----------------------------------------------------------------------------
(* Calls.                                                                  *)

call(op, method, path, body, query) ==
    /\ ~panicked
    /\ canCall(method, path, body, query)
    /\ \E o \in executeCall(Client, method, path, body, query) :
          /\ cacheDB' = o.db
          /\ last' = callRecord(op, method, path, body, query, o)
          /\ mp' = IF inWindow /\ o.sent = 1 /\ o.err = "nil"
                   THEN [mp EXCEPT !.windowSent =
                            @ \cup {HeaderGet(o.request.header, contentTypeHeader)}]
                   ELSE mp
    /\ UNCHANGED <<basePath, port, version, service, apiKey, headers, authT, panicked>>

GET(path, body, query) == call("GET", MethodGet, path, body, query)

POST(path, body, query) == call("POST", MethodPost, path, body, query)

PUT(path, body, query) == call("PUT", MethodPut, path, body, query)

DELETE(path, body, query) == call("DELETE", MethodDelete, path, body, query)

\* MULTIPART: an error of getMultipartBody returns before the headers are
\* touched; otherwise the headers are cloned, the content type is set, the
\* call is made as a POST and the clone is put back
MULTIPART(path, bodyData, query) ==
    LET mb == getMultipartBody(bodyData)
        snapshot == headers
        override == multipartOverride(headers, mb.contentType)
    IN  /\ ~panicked
        /\ IF mb.err
           THEN /\ last' = [NoLast EXCEPT !.op = "MULTIPART", !.path = path,
                                          !.query = query, !.err = "multipart",
                                          !.hdrBefore = headers, !.dbBefore = cacheDB]
                /\ UNCHANGED <<headers, cacheDB>>
           ELSE /\ canCall(MethodPost, path, mb.body, query)
                /\ \E o \in executeCall([Client EXCEPT !.headers = override],
                                        MethodPost, path, mb.body, query) :
                      /\ cacheDB' = o.db
                      /\ last' = callRecord("MULTIPART", MethodPost, path, mb.body,
                                            query, o)
                /\ headers' = multipartRestore(snapshot, override)
        /\ UNCHANGED <<basePath, port, version, service, apiKey, authT, panicked, mp>>

-----------------------------------------------------------------------------
(* MULTIPART called by one caller while another caller uses the same       *)
(* client: the call in three steps, between which the other caller acts.   *)

\* lines 142-148: the body is built, the headers are cloned and the content
\* type is set on the client's header set
MultipartBegin(path, bodyData, query) ==
    LET mb == getMultipartBody(bodyData)
    IN  /\ ~panicked
        /\ ~inWindow
        /\ IF mb.err
           THEN /\ last' = [NoLast EXCEPT !.op = "MULTIPART", !.path = path,
                                          !.query = query, !.err = "multipart",
                                          !.hdrBefore = headers, !.dbBefore = cacheDB]
                /\ UNCHANGED <<headers, mp>>
           ELSE /\ headers' = multipartOverride(headers, mb.contentType)
                /\ mp' = [NoMultipart EXCEPT !.pc = "overridden", !.snapshot = headers,
                                             !.path = path, !.body = mb.body,
                                             !.query = query]
                /\ last' = NoLast
        /\ UNCHANGED <<basePath, port, version, service, apiKey, cacheDB, authT, panicked>>

\* line 149: executeCall, which takes the client's header set as it is then
MultipartSend ==
    /\ ~panicked
    /\ mp.pc = "overridden"
    /\ canCall(MethodPost, mp.path, mp.body, mp.query)
    /\ \E o \in executeCall(Client, MethodPost, mp.path, mp.body, mp.query) :
          /\ cacheDB' = o.db
          /\ last' = callRecord("MULTIPART", MethodPost, mp.path, mp.body, mp.query, o)
          /\ mp' = [mp EXCEPT !.pc = "sent",
                              !.record = callRecord("MULTIPART", MethodPost, mp.path,
                                                    mp.body, mp.query, o)]
    /\ UNCHANGED <<basePath, port, version, service, apiKey, headers, authT, panicked>>

\* lines 150-151: the clone becomes the client's header set and the call
\* returns
MultipartEnd ==
    /\ ~panicked
    /\ mp.pc = "sent"
    /\ headers' = multipartRestore(mp.snapshot, headers)
    /\ last' = mp.record
    /\ mp' = [mp EXCEPT !.pc = "done"]
    /\ UNCHANGED <<basePath, port, version, service, apiKey, cacheDB, authT, panicked>>

-----------------------------------------------------------------------------
(* The parsers applied to a response.                                      *)

parseOp(op, resp, receiver, out) ==
    /\ ~panicked
    /\ last' = [NoLast EXCEPT !.op = op,
                              !.parse = [resp |-> resp, before |-> receiver, out |-> out]]
    /\ panicked' = out.panic
    /\ UNCHANGED <<basePath, port, version, service, apiKey, headers, cacheDB, authT, mp>>

ParseAllPaginated(resp, receiver) ==
    parseOp("ParseAllPaginated", resp, receiver, ParseAllPaginatedResult(resp, receiver))

ParseOnePaginated(resp, receiver) ==
    parseOp("ParseOnePaginated", resp, receiver, ParseOnePaginatedResult(resp, receiver))

-----------------------------------------------------------------------------
(* Inputs of the operations.                                               *)

BasePaths == {<<"h", "t", "t", "p", ":", "/", "/", "h", "/">>}
Ports == {80}
Versions == {<<"v", "1">>}
Services == {<<"s">>}
APIKeys == {"k"}
Tokens == {"Bearer T"}
TraceIDs == {"t1"}
ContentTypes == {"text/plain"}
HeaderNames == {"authorization", "X-Custom"}
HeaderValues == {"v"}

Next ==
    \/ WithCache
    \/ \E p \in BasePaths : WithBasePath(p)
    \/ \E p \in Ports : WithPort(p)
    \/ \E s \in Services : ToService(s)
    \/ \E v \in Versions : WithVersion(v)
    \/ \E k \in APIKeys : WithAPIKey(k)
    \/ \E id \in TraceIDs : WithTraceID(id)
    \/ \E c \in ContentTypes : WithContentType(c)
    \/ WithJSONContent
    \/ \E t \in Tokens : WithAuthHeader(t)
    \/ \E h \in HeaderNames, v \in HeaderValues : SetHeader(h, v)
    \/ \E h \in HeaderNames, v \in HeaderValues : AddHeader(h, v)
    \/ \E ctx \in Contexts : InheritFromParentContext(ctx)
    \/ \E ctx \in Contexts : InheritFromParentContextAlt(ctx)
    \/ \E p \in Paths, b \in Bodies, q \in Queries : GET(p, b, q)
    \/ \E p \in Paths, b \in Bodies, q \in Queries : POST(p, b, q)
    \/ \E p \in Paths, b \in Bodies, q \in Queries : PUT(p, b, q)
    \/ \E p \in Paths, b \in Bodies, q \in Queries : DELETE(p, b, q)
    \/ \E p \in Paths, b \in MultipartBodies, q \in Queries : MULTIPART(p, b, q)

Spec == Init /\ [][Next]_vars

\* The calls and the cache on a client whose headers only MULTIPART touches.
\* Every payload and query goes through POST; the other verbs are the same
\* wrapper of executeCall and take their usual payloads.
NextCalls ==
    \/ WithCache
    \/ \E p \in BasePaths : WithBasePath(p)
    \/ \E p \in Ports : WithPort(p)
    \/ \E k \in APIKeys : WithAPIKey(k)
    \/ \E p \in Paths, q \in Queries : GET(p, NilBody, q)
    \/ \E p \in Paths, b \in Bodies, q \in Queries : POST(p, b, q)
    \/ \E p \in Paths, b \in {JsonBody, BadBody} : PUT(p, b, NilQuery)
    \/ \E p \in Paths : DELETE(p, NilBody, NilQuery)
    \/ \E p \in Paths, b \in MultipartBodies : MULTIPART(p, b, NilQuery)

SpecCalls == Init /\ [][NextCalls]_vars

\* The header operations, with the calls that send the headers
NextHeaders ==
    \/ WithCache
    \/ \E p \in BasePaths : WithBasePath(p)
    \/ \E p \in Ports : WithPort(p)
    \/ \E id \in TraceIDs : WithTraceID(id)
    \/ \E c \in ContentTypes : WithContentType(c)
    \/ WithJSONContent
    \/ \E t \in Tokens : WithAuthHeader(t)
    \/ \E h \in HeaderNames, v \in HeaderValues : SetHeader(h, v)
    \/ \E h \in HeaderNames, v \in HeaderValues : AddHeader(h, v)
    \/ \E ctx \in Contexts : InheritFromParentContext(ctx)
    \/ \E ctx \in Contexts : InheritFromParentContextAlt(ctx)
    \/ \E p \in Paths : POST(p, JsonBody, NilQuery)
    \/ \E p \in Paths, b \in MultipartBodies : MULTIPART(p, b, NilQuery)

SpecHeaders == Init /\ [][NextHeaders]_vars

\* The composition of the request URL: base paths with and without trailing
\* separators, a port that is set and reset, version and service that are set
\* and cleared, call paths with zero, one and two leading separators.  The
\* texts are URLs in the form url.Parse and URL.String leave as they are
\* (lower-case scheme, no character that needs escaping).
URIBasePaths == {<<"h", "t", "t", "p", ":", "/", "/", "h">>,
                 <<"h", "t", "t", "p", ":", "/", "/", "h", "/">>,
                 <<"h", "t", "t", "p", ":", "/", "/", "h", "/", "/">>,
                 <<>>}
URIPorts == {0, 80}
URIVersions == {<<>>, <<"v", "1">>}
URIServices == {<<>>, <<"s">>}
URIPaths == {<<>>, <<"x">>, <<"/", "x">>, <<"/", "/", "x", "/", "y">>}

NextURI ==
    \/ \E p \in URIBasePaths : WithBasePath(p)
    \/ \E p \in URIPorts : WithPort(p)
    \/ \E v \in URIVersions : WithVersion(v)
    \/ \E s \in URIServices : ToService(s)
    \/ \E p \in URIPaths : GET(p, NilBody, NilQuery)
    \/ \E p \in URIPaths : POST(p, JsonBody, OneQuery)

SpecURI == Init /\ [][NextURI]_vars

\* The header operations alone
NextHeaderWrites ==
    \/ \E id \in TraceIDs : WithTraceID(id)
    \/ \E c \in ContentTypes : WithContentType(c)
    \/ WithJSONContent
    \/ \E t \in Tokens : WithAuthHeader(t)
    \/ \E h \in HeaderNames, v \in HeaderValues : SetHeader(h, v)
    \/ \E h \in HeaderNames, v \in HeaderValues : AddHeader(h, v)
    \/ \E ctx \in Contexts : InheritFromParentContext(ctx)
    \/ \E ctx \in Contexts : InheritFromParentContextAlt(ctx)

SpecHeaderWrites == Init /\ [][NextHeaderWrites]_vars

\* One client shared by a caller of MULTIPART and a caller of POST and of the
\* header setters
NextConcurrent ==
    \/ \E p \in BasePaths : WithBasePath(p)
    \/ \E p \in Paths, b \in MultipartBodies : MultipartBegin(p, b, NilQuery)
    \/ MultipartSend
    \/ MultipartEnd
    \/ \E p \in Paths : POST(p, JsonBody, NilQuery)
    \/ \E h \in HeaderNames, v \in HeaderValues : SetHeader(h, v)
    \/ WithJSONContent

SpecConcurrent == Init /\ [][NextConcurrent]_vars

\* The parsers on the responses a caller can hold
NextParse ==
    \/ \E r \in ParseResponses, x \in Receivers : ParseAllPaginated(r, x)
    \/ \E r \in ParseResponses, x \in Receivers : ParseOnePaginated(r, x)

SpecParse == Init /\ [][NextParse]_vars

-----------------------------------------------------------------------------
(* The claims.  last describes the operation that led to the state: every  *)
(* operation writes it, and a configuration step clears it, so last.prev   *)
(* describes the call made right before the last one.                      *)

lastKey == getCacheKey(last.method, last.path, last.body, last.query)

isInherit == last.op \in {"InheritFromParentContext", "InheritFromParentContextAlt"}

\* C1: on a cache-enabled client, a call that repeats the call made right
\* before it, which went to the network and got a response, issues no second
\* network request and returns a response with the same status and body.
C1_CacheIdempotence ==
    (last.called /\ last.dbBefore.open /\ last.prev.same
        /\ last.prev.sent = 1 /\ last.prev.err = "nil")
    => (last.sent = 0 /\ last.err = "nil" /\ last.response = last.prev.response)

\* C2: the lookup reports a hit if and only if a response was stored under
\* the call's fingerprint; on a hit the call returns that stored response, on
\* a miss it goes on to the steps that lead to the network.
C2_LookupHitIffStored ==
    last.called =>
        /\ last.cached <=> (last.dbBefore.open /\ lastKey \in DOMAIN last.dbBefore.data)
        /\ last.cached => last.response = last.dbBefore.data[lastKey].of
        /\ ~last.cached => Len(last.steps) > 1

\* C3: every request sent by a client with a non-empty API key carries the
\* query parameter key=<API key>, after the caller's own parameters, also
\* when the caller passed a nil query.
C3_APIKeyAlwaysSent ==
    (last.called /\ last.sent = 1 /\ last.err = "nil" /\ apiKey # "")
    => /\ Len(last.request.query) > 0
       /\ last.request.query[Len(last.request.query)] = <<keyQuery, apiKey>>

\* C4: after a MULTIPART call, whatever its outcome, the client's header set
\* is the one it had before the call; the multipart content type is carried
\* by the request of that call and by no other request, and the client's
\* header set never holds it between operations.
C4_MultipartRestoresHeaders ==
    /\ last.op = "MULTIPART" => headers = last.hdrBefore
    /\ (last.op = "MULTIPART" /\ last.sent = 1)
       => HeaderGet(last.request.header, contentTypeHeader) = FormDataContentType
    /\ (last.op # "MULTIPART" /\ last.sent = 1)
       => HeaderGet(last.request.header, contentTypeHeader) # FormDataContentType
    /\ HeaderGet(headers, contentTypeHeader) # FormDataContentType

\* a MULTIPART call that got a response, on a client with a content type
C4_Witness ==
    /\ last.op = "MULTIPART" /\ last.sent = 1 /\ last.err = "nil"
    /\ HeaderGet(last.hdrBefore, contentTypeHeader) = jsonContent

\* C5: InheritFromParentContext copies only Authorization: every other
\* header of the client keeps its value, and no other inbound header appears.
C5_InheritOnlyAuthorization ==
    (isInherit /\ ~panicked)
    => \A n \in (DOMAIN headers \cup DOMAIN last.hdrBefore) \ {Canon(authorizationHeader)} :
          /\ n \in DOMAIN headers /\ n \in DOMAIN last.hdrBefore
          /\ headers[n] = last.hdrBefore[n]

\* C6: InheritFromParentContext with a context whose inbound request is nil
\* or has no headers does not fail and leaves the header set unchanged.
C6_InheritToleratesEmptyContext ==
    (isInherit /\ ~last.ctx.isNil /\ (last.ctx.nilRequest \/ DOMAIN last.ctx.header = {}))
    => (~panicked /\ headers = last.hdrBefore)

\* C7: while the value t written by WithAuthHeader(t), or inherited from an
\* inbound Authorization header t, has not been written over, the client's
\* Authorization header is exactly t and so is that of a request that is sent.
C7_AuthHeaderExact ==
    authT.set =>
        /\ HeaderGet(headers, authorizationHeader) = authT.val
        /\ last.sent = 1 => HeaderGet(last.request.header, authorizationHeader) = authT.val

\* a request sent after the inbound Authorization was inherited
C7_Witness ==
    /\ authT.set /\ authT.val = "Bearer U"
    /\ last.sent = 1 /\ last.err = "nil"

\* C8: on a client on which no header was configured, a call with a body is
\* sent with the content type application/json.
C8_DefaultJSONContentType ==
    (last.called /\ last.op # "MULTIPART" /\ last.sent = 1 /\ last.err = "nil"
        /\ last.request.body.has /\ last.hdrBefore = EmptyMap)
    => HeaderGet(last.request.header, contentTypeHeader) = jsonContent

\* C9: a call whose transport fails returns no response and the transport
\* error after exactly one network attempt and leaves the cache as it was; a
\* call that repeats it on a cache-enabled client goes to the network again.
C9_TransportFailure ==
    /\ (last.called /\ last.err = "transport")
       => /\ last.response = NilResponse
          /\ last.sent = 1
          /\ ~last.cached
          /\ cacheDB = last.dbBefore
    /\ (last.called /\ last.prev.same /\ last.prev.err = "transport")
       => (last.sent = 1 /\ ~last.cached)

\* a transport failure repeated on a cache-enabled client that holds entries
C9_Witness ==
    /\ last.called /\ last.err = "transport"
    /\ last.prev.same /\ last.prev.err = "transport"
    /\ cacheDB.open /\ DOMAIN cacheDB.data # {}

\* C10: a payload that is neither nil nor a byte stream and cannot be
\* marshaled ends the call with an encoding error, no response, no network
\* request and no store; a nil payload gives a request without body and a
\* byte stream is the body of the request as it is.
C10_EncodingErrorAborts ==
    /\ (last.called /\ ~last.body.nil /\ ~last.body.reader /\ ~last.body.marshalable)
       => /\ last.err = "encoding"
          /\ last.response = NilResponse
          /\ last.sent = 0
          /\ cacheDB = last.dbBefore
    /\ (last.called /\ last.sent = 1 /\ last.body.nil) => ~last.request.body.has
    /\ (last.called /\ last.sent = 1 /\ last.body.reader)
       => last.request.body = [has |-> TRUE, bytes |-> last.body.content]

\* C11: a response that arrives is returned with a nil error whatever its
\* status, and on a cache-enabled client the store is made under the call's
\* fingerprint for every status alike, the other entries staying as they were.
C11_StatusIndependent ==
    (last.called /\ last.sent = 1 /\ last.err # "transport")
    => /\ last.err = "nil"
       /\ last.response \in Responses
       /\ cacheDB.open = last.dbBefore.open
       /\ last.dbBefore.open
          => /\ DOMAIN cacheDB.data = DOMAIN last.dbBefore.data \cup {lastKey}
             /\ cacheDB.data[lastKey].of = last.response
             /\ cacheDB.data[lastKey].bytes = marshalResponse(last.response)
             /\ \A k \in DOMAIN last.dbBefore.data \ {lastKey} :
                   cacheDB.data[k] = last.dbBefore.data[k]

\* a 404 answer returned and offered to the cache of a cache-enabled client
C11_Witness ==
    /\ last.called /\ last.sent = 1 /\ last.err = "nil"
    /\ last.response.status = 404
    /\ last.dbBefore.open /\ lastKey \in DOMAIN cacheDB.data

\* C12: while WithCache was never called the cache holds no entry, no call
\* is answered from it, and every call that passes the body encoding and the
\* request construction makes one network request.
C12_CacheDisabledNoOps ==
    ~cacheDB.open
    => /\ DOMAIN cacheDB.data = {}
       /\ last.called
          => /\ ~last.cached
             /\ last.err \notin {"encoding", "construction"} => last.sent = 1

\* without a cache, a call that repeats an answered call goes out again
C12_Witness ==
    /\ ~cacheDB.open
    /\ last.called /\ last.sent = 1 /\ last.err = "nil"
    /\ last.prev.same /\ last.prev.sent = 1 /\ last.prev.err = "nil"

\* the call path without its leading separators, said without TrimLeft: the
\* suffix that follows the longest prefix made of separators only
pathAfterSeparators(path) ==
    LET n == CHOOSE i \in 0..Len(path) :
                 /\ \A j \in 1..i : path[j] = uriSeparator
                 /\ (i = Len(path) \/ path[i + 1] # uriSeparator)
    IN  SubSeq(path, n + 1, Len(path))

\* C13: the stored base path never ends in a separator, and the URL of a
\* request is the base path, ":<port>" iff the port is not 0, one separator,
\* "<version>/" iff the version is not empty, "<service>/" iff the service is
\* not empty (version before service), and the call path without its leading
\* separators.
C13_URIComposition ==
    /\ basePath = <<>> \/ basePath[Len(basePath)] # uriSeparator
    /\ \E p \in URIBasePaths \cup BasePaths :
          /\ Len(basePath) <= Len(p)
          /\ basePath = SubSeq(p, 1, Len(basePath))
          /\ \A j \in (Len(basePath) + 1)..Len(p) : p[j] = uriSeparator
    /\ (last.called /\ last.sent = 1)
       => last.request.url =
             basePath
             \o (IF port = 0 THEN <<>> ELSE <<":">> \o Itoa(port))
             \o <<"/">>
             \o (IF version = <<>> THEN <<>> ELSE version \o <<"/">>)
             \o (IF service = <<>> THEN <<>> ELSE service \o <<"/">>)
             \o pathAfterSeparators(last.path)

\* a request to a base path with port, version and service, for a call path
\* with two leading separators
C13_Witness ==
    /\ last.called /\ last.sent = 1 /\ last.err = "nil"
    /\ basePath # <<>> /\ port # 0 /\ version # <<>> /\ service # <<>>
    /\ Len(last.path) > 2 /\ last.path[1] = uriSeparator /\ last.path[2] = uriSeparator

isParse == last.op \in {"ParseAllPaginated", "ParseOnePaginated"}

\* C14: the parsers write to the receiver only for a status in 200..399;
\* for any other status they do not panic, return an ErrorResponse (the
\* one decoded from the body, or the fallback with the status as its code
\* when the body cannot be decoded) and leave the receiver as it was.
C14_ParseErrorIsStructured ==
    isParse =>
        /\ last.parse.out.receiver # last.parse.before => isValidResponse(last.parse.resp)
        /\ ~isValidResponse(last.parse.resp)
           => /\ ~last.parse.out.panic
              /\ ~panicked
              /\ last.parse.out.err = "ErrorResponse"
              /\ last.parse.out.receiver = last.parse.before
              /\ \/ /\ ParseToError(last.parse.resp.body).err = "nil"
                    /\ last.parse.resp.body.json
                    /\ last.parse.out.error.code = last.parse.resp.body.error.code
                    /\ last.parse.out.error.name = last.parse.resp.body.error.name
                 \/ last.parse.out.error = fallbackError(last.parse.resp)

\* the steps of a call in their order
callSteps == <<"lookup", "encode", "uri", "query", "headers", "send", "store">>

\* C15: the steps a call ran are a prefix of lookup, encode, uri, query,
\* headers, send, store; a hit ends the call after the lookup and a failing
\* step is the last one that ran; the call ends with a cached response and no
\* network request, or a response after one network request, or an error and
\* no response.
C15_StepOrder ==
    last.called =>
        /\ Len(last.steps) \in 1..Len(callSteps)
        /\ last.steps = SubSeq(callSteps, 1, Len(last.steps))
        /\ callCached(last.dbBefore, last.method, last.path, last.body, last.query).isCached
           => last.steps = <<"lookup">>
        /\ \/ /\ last.cached /\ last.sent = 0 /\ last.err = "nil"
              /\ last.response # NilResponse
              /\ last.steps = <<"lookup">>
           \/ /\ ~last.cached /\ last.sent = 1 /\ last.err = "nil"
              /\ last.response \in Responses
              /\ last.steps = callSteps
           \/ /\ ~last.cached /\ last.err # "nil"
              /\ last.response = NilResponse
              /\ \/ last.err = "encoding" /\ last.sent = 0 /\ last.steps = <<"lookup", "encode">>
                 \/ last.err = "construction" /\ last.sent = 0
                      /\ last.steps = <<"lookup", "encode", "uri">>
                 \/ last.err = "transport" /\ last.sent = 1
                      /\ last.steps = SubSeq(callSteps, 1, 6)

\* a call that the lookup answered, right after the same call went through
\* all seven steps
C15_Witness ==
    /\ last.called /\ last.cached /\ last.steps = <<"lookup">>
    /\ last.prev.same /\ last.prev.sent = 1 /\ last.prev.err = "nil"

\* the MULTIPART call in flight has just put its clone back
justRestored == mp.pc = "done" /\ last = mp.record

\* C16: between the override and the restore of a MULTIPART call, a request
\* another caller sends carries the multipart content type (unless that
\* caller wrote the content type in between), and after the restore the
\* header set is the clone, so that no header written in between is left.
C16_MultipartWindowUnsafe ==
    /\ \A ct \in mp.windowSent :
          ct = FormDataContentType \/ Canon(contentTypeHeader) \in mp.written
    /\ justRestored
       => /\ headers = mp.snapshot
          /\ \A n \in mp.written :
                HeaderGet(headers, n) = HeaderGet(mp.snapshot, n)

\* the interleaving: in the window the other caller wrote X-Custom and sent
\* a POST that carried the multipart content type; after the restore
\* X-Custom is gone
C16_Witness ==
    /\ justRestored
    /\ FormDataContentType \in mp.windowSent
    /\ "X-Custom" \in mp.written
    /\ "X-Custom" \notin DOMAIN headers

\* a header name in lower case, for the names of the model
FoldCase(name) ==
    CASE name \in {"Authorization", "authorization"} -> "authorization"
      [] name \in {"Content-Type", "Content-type"}   -> "content-type"
      [] name \in {"X-Trace-Id", "X-trace-id"}       -> "x-trace-id"
      [] name = "X-Custom"                           -> "x-custom"
      [] name = "X-Upstream"                         -> "x-upstream"
      [] OTHER                                       -> name

\* after a write of value under name: the name, in whatever case, holds
\* that one value, no two names of the set differ in case only, and every
\* other name holds what it held
wroteLast(name, value) ==
    /\ \E n \in DOMAIN headers' : FoldCase(n) = FoldCase(name) /\ headers'[n] = <<value>>
    /\ \A a, b \in DOMAIN headers' : FoldCase(a) = FoldCase(b) => a = b
    /\ \A n \in DOMAIN headers' : Len(headers'[n]) = 1
    /\ \A n \in DOMAIN headers' :
          FoldCase(n) # FoldCase(name) => n \in DOMAIN headers /\ headers'[n] = headers[n]
    /\ \A n \in DOMAIN headers :
          FoldCase(n) # FoldCase(name) => n \in DOMAIN headers'

\* what each header operation does to the header set
headerWrites ==
    /\ \A id \in TraceIDs : WithTraceID(id) => wroteLast(traceIDHeader, id)
    /\ \A c \in ContentTypes : WithContentType(c) => wroteLast(contentTypeHeader, c)
    /\ WithJSONContent => wroteLast(contentTypeHeader, jsonContent)
    /\ \A t \in Tokens : WithAuthHeader(t) => wroteLast(authorizationHeader, t)
    /\ \A h \in HeaderNames, v \in HeaderValues : SetHeader(h, v) => wroteLast(h, v)
    /\ \A h \in HeaderNames, v \in HeaderValues : AddHeader(h, v) => wroteLast(h, v)
    /\ \A ctx \in Contexts :
          (InheritFromParentContext(ctx) /\ ~panicked' /\ DOMAIN ctx.header # {})
          => /\ \A n \in DOMAIN ctx.header : headers'[Canon(n)] = <<Head(ctx.header[n])>>
             /\ \A a, b \in DOMAIN headers' : FoldCase(a) = FoldCase(b) => a = b
             /\ \A n \in DOMAIN headers' \ {Canon(m) : m \in DOMAIN ctx.header} :
                   n \in DOMAIN headers /\ headers'[n] = headers[n]
    /\ \A ctx \in Contexts :
          (InheritFromParentContextAlt(ctx) /\ DOMAIN ctx.header # {})
          => wroteLast(authorizationHeader, GetHeader(ctx, authorizationHeader))

\* C17: every header operation leaves each name, compared without regard
\* to case, with exactly one value, the one written last under it; AddHeader
\* replaces the value as SetHeader does.
C17_LastWriteWins == [][headerWrites]_vars

\* Authorization written under the name "authorization" over an inherited
\* value, beside a content type and a trace id
C17_Witness ==
    /\ last.op = "none"
    /\ "Authorization" \in DOMAIN headers /\ headers["Authorization"] = <<"v">>
    /\ "X-Upstream" \in DOMAIN headers
    /\ HeaderGet(headers, contentTypeHeader) = jsonContent
    /\ HeaderGet(headers, traceIDHeader) \in TraceIDs

\* C18: a call that is answered from the cache is answered from an entry
\* that a call with the same method, path, body content and query stored.
C18_FingerprintSeparatesCalls ==
    (last.called /\ last.cached)
    => /\ lastKey \in DOMAIN last.dbBefore.data
       /\ last.dbBefore.data[lastKey].by =
             [path |-> last.path, body |-> last.body, method |-> last.method,
              query |-> last.query]

\* the multipart body of the last call holds a file part that was cut short
truncatedPart(bytes) == \E i \in 1..Len(bytes) : bytes[i] = "f"

\* C19: a MULTIPART call for which a file could not be opened or streamed
\* to its end returns an error and no response and sends nothing; no request
\* carries a file part that was cut short.
C19_MultipartFileErrors ==
    /\ (last.op = "MULTIPART" /\ last.called /\ truncatedPart(last.body.content))
       => (last.err # "nil" /\ last.response = NilResponse /\ last.sent = 0)
    /\ (last.op = "MULTIPART" /\ last.err = "multipart")
       => (last.response = NilResponse /\ last.sent = 0 /\ ~last.called)
    /\ (last.op = "MULTIPART" /\ last.sent = 1)
       => ~truncatedPart(last.request.body.bytes)

\* C20: ParseOnePaginated on a response with a status in 200..399 whose body
\* decodes to a page gives the receiver the first record of data, and
\* returns an error, without a panic, when data is empty or absent.
C20_ParseOneFirstRecord ==
    (last.op = "ParseOnePaginated" /\ isValidResponse(last.parse.resp)
        /\ Body2Interface(last.parse.resp).err = "nil"
        /\ ~Body2Interface(last.parse.resp).panic
        /\ ParseToPaginated(last.parse.resp.body).err = "nil")
    => LET data == ParseToPaginated(last.parse.resp.body).page.data
       IN  /\ ~last.parse.out.panic
           /\ data = <<>> => last.parse.out.err # "nil"
           /\ (data # <<>> /\ last.parse.out.err = "nil")
              => last.parse.out.receiver =
                    [last.parse.before EXCEPT !.val = <<"record", data[1]>>]
           /\ (data # <<>> /\ last.parse.before.isPtr /\ last.parse.before.any)
              => last.parse.out.err = "nil"

====
